---- MODULE Spec2Model ----
(***************************************************************************)
(* Model of fl::VisionTransformer                                          *)
(* (flashlight/fl/contrib/modules/VisionTransformer.cpp): the two          *)
(* construction paths (randomly initialized, checkpoint loading) and the   *)
(* forward pass of one Transformer encoder block.                          *)
(*                                                                         *)
(* Tensors are represented by their dimensions and by a symbolic term (a   *)
(* prefix-notation sequence of operation tokens); arrays built over a      *)
(* float buffer are represented as ArrayFire represents them: a            *)
(* column-major view (buffer, leading dimension, row offset, dims).        *)
(* Probabilities are in percent.  Ratios are pairs <<num, den>>; a zero    *)
(* denominator with a zero numerator is the float 0/0 (NaN).               *)
(***************************************************************************)
EXTENDS Integers, Sequences, FiniteSets, TLC

VARIABLES
    files,        \* the checkpoint files on disk: index -> [exists, bytes]
    ctor,         \* which constructor ran: "none", "random", "checkpoint"
    phase,        \* "none", "loading", "ready" (constructed), "failed" (threw)
    next,         \* checkpoint constructor: index of the next file it reads
    w,            \* checkpoint constructor local: std::vector<float> w
    b,            \* checkpoint constructor local: std::vector<float> b
    err,          \* what() of the exception the constructor threw
    linearCalls,  \* the (weight dims, bias length) given to each Linear
    this,         \* the block object: configuration, members, children
    last          \* the forward call the caller holds: inputs, steps, outputs

vars == <<files, ctor, phase, next, w, b, err, linearCalls, this, last>>

----------------------------------------------------------------------------
(* Bounds of the model *)

MaxT == 2          \* sequence lengths 1..MaxT
MaxB == 2          \* batch sizes 1..MaxB
MaxDim == 2        \* modelDim, headDim, nHeads of the random path: 1..MaxDim
MaxBad == 2        \* at most this many checkpoint files are not well-formed

MlpDims == {1, 3}                \* mlpDim of the random path
PDropouts == {0, 50}             \* pDropout, percent
PLayerdrops == {0, 50, 100}      \* pLayerdrop, percent
RanduVals == {25, 75}            \* values af::randu returns, percent
DropoutDraws == {1, 2}           \* realizations of a dropout mask
Arities == {0, 1, 2}             \* inputs.size() of a forward call
Probe == {0, 1, 767}             \* row / column indices probed in a weight

----------------------------------------------------------------------------
(* Float buffers and ArrayFire arrays *)

SizeofFloat == 4

Suffix ==
    << ".mlp.fc1.weight.bin", ".mlp.fc1.bias.bin",
       ".mlp.fc2.weight.bin", ".mlp.fc2.bias.bin",
       ".attn.qkv.weight.bin", ".attn.qkv.bias.bin",
       ".attn.proj.weight.bin", ".attn.proj.bias.bin",
       ".norm1.weight.bin", ".norm1.bias.bin",
       ".norm2.weight.bin", ".norm2.bias.bin" >>

\* the element count the constructor compares each file's vector with
Expected ==
    << 768 * 3072, 3072, 768 * 3072, 768, 768 * 2304, 2304,
       768 * 768, 768, 768, 768, 768, 768 >>

NFiles == Len(Suffix)

FileIdx == 1..NFiles

\* readfloats: an empty vector when the stream does not open, else
\* tellg() / sizeof(float) elements (integer division) read from the start
ReadFloats(i) ==
    IF ~files[i].exists
    THEN [file |-> Suffix[i], n |-> 0]
    ELSE [file |-> Suffix[i], n |-> files[i].bytes \div SizeofFloat]

NoVector == [file |-> "", n |-> 0]

NullArr == [data |-> "null", d0 |-> 0, off |-> 0, dims |-> <<0, 0>>]

\* af::array(rows, cols, ptr): a column-major array over the host buffer,
\* element (i, j) is ptr[i + rows * j]
AfArray(rows, cols, vec) ==
    [data |-> vec.file, d0 |-> rows, off |-> 0, dims |-> <<rows, cols>>]

\* a(af::seq(first, last), af::span): rows first..last of a
AfRows(a, first, lst) ==
    [a EXCEPT !.off = a.off + first, !.dims = <<lst - first + 1, a.dims[2]>>]

\* the offset in the host buffer of element (i, j) of an array
ArrayAt(a, i, j) == (a.off + i) + a.d0 * j

\* truncNormal(af::dim4(outDim, inDim), 0.02)
InitLinear(inDim, outDim) ==
    [data |-> "truncNormal", d0 |-> outDim, off |-> 0, dims |-> <<outDim, inDim>>]

\* fl::constant(0., n, 1, f32)
Constant(n) ==
    [data |-> "zeros", d0 |-> n, off |-> 0, dims |-> <<n, 1>>]

----------------------------------------------------------------------------
(* Sub-modules *)

NullModule == [kind |-> "null", w |-> NullArr, b |-> NullArr]

\* Linear(w, b): holds weight (out x in) and bias of length out; the
\* constructor rejects a bias whose length is not the weight's row count
LinearOk(wt, bs) == bs.dims[1] = wt.dims[1]

Linear(wt, bs) == [kind |-> "Linear", w |-> wt, b |-> bs]

\* LayerNorm({0}, 1e-6, true, size), then setParams(weight, 0), (bias, 1)
LayerNorm(wt, bs) == [kind |-> "LayerNorm", w |-> wt, b |-> bs]

LayerNormInit(size) ==
    LayerNorm([data |-> "ones", d0 |-> size, off |-> 0, dims |-> <<size, 1>>],
              Constant(size))

LinearNames == <<"w1", "w2", "wq", "wk", "wv", "wf">>

NoCalls == [nm \in {LinearNames[k] : k \in 1..Len(LinearNames)} |->
               [w |-> <<0, 0>>, b |-> 0]]

CallOf(wt, bs) == [w |-> wt.dims, b |-> bs.dims[1]]

NoObject ==
    [modelDim |-> 0, headDim |-> 0, mlpDim |-> 0, nHeads |-> 0,
     pDropout |-> 0, pLayerdrop |-> 0, train |-> TRUE,
     w1 |-> NullModule, w2 |-> NullModule, wq |-> NullModule,
     wk |-> NullModule, wv |-> NullModule, wf |-> NullModule,
     norm1 |-> NullModule, norm2 |-> NullModule,
     children |-> <<>>]

\* faulty variant: wf_ is left out of the add(...) calls
RegisterSkipsWf(obj) ==
    [obj EXCEPT !.children = <<"w1", "w2", "wq", "wk", "wv", "norm1", "norm2">>]

\* the add(...) calls that end both constructors
RegisterChildren(obj) ==
    [obj EXCEPT !.children =
        <<"w1", "w2", "wq", "wk", "wv", "wf", "norm1", "norm2">>]

NoCall ==
    [status |-> "none", train |-> TRUE, inputs |-> <<>>, outputs |-> <<>>,
     steps |-> <<>>, shapes |-> <<>>, paths |-> <<>>, err |-> ""]

----------------------------------------------------------------------------
(* Initial state: nothing constructed, no file on disk *)

NoFiles == [i \in FileIdx |-> [exists |-> FALSE, bytes |-> 0]]

Init ==
    /\ files = NoFiles
    /\ ctor = "none"
    /\ phase = "none"
    /\ next = 0
    /\ w = NoVector
    /\ b = NoVector
    /\ err = ""
    /\ linearCalls = NoCalls
    /\ this = NoObject
    /\ last = NoCall

----------------------------------------------------------------------------
(* Randomly-initialized construction *)

\* the arguments of the six make_shared<Linear>(...) of the initializer list
RandomLinears(modelDim, headDim, mlpDim, nHeads) ==
    [w1 |-> [w |-> InitLinear(modelDim, mlpDim), b |-> Constant(mlpDim)],
     w2 |-> [w |-> InitLinear(mlpDim, modelDim), b |-> Constant(modelDim)],
     wq |-> [w |-> InitLinear(modelDim, headDim * nHeads),
             b |-> Constant(headDim * nHeads)],
     wk |-> [w |-> InitLinear(modelDim, headDim * nHeads),
             b |-> Constant(headDim * nHeads)],
     wv |-> [w |-> InitLinear(modelDim, headDim * nHeads),
             b |-> Constant(headDim * nHeads)],
     wf |-> [w |-> InitLinear(headDim * nHeads, modelDim),
             b |-> Constant(headDim * nHeads)]]

RandomConstruct ==
    /\ phase = "none"
    /\ \E modelDim \in 1..MaxDim, headDim \in 1..MaxDim, nHeads \in 1..MaxDim,
          mlpDim \in MlpDims, pDropout \in PDropouts, pLayerdrop \in PLayerdrops :
        LET args == RandomLinears(modelDim, headDim, mlpDim, nHeads)
            names == DOMAIN args
            ok == \A nm \in names : LinearOk(args[nm].w, args[nm].b)
            obj == [NoObject EXCEPT
                      !.modelDim = modelDim, !.headDim = headDim,
                      !.mlpDim = mlpDim, !.nHeads = nHeads,
                      !.pDropout = pDropout, !.pLayerdrop = pLayerdrop,
                      !.w1 = Linear(args.w1.w, args.w1.b),
                      !.w2 = Linear(args.w2.w, args.w2.b),
                      !.wq = Linear(args.wq.w, args.wq.b),
                      !.wk = Linear(args.wk.w, args.wk.b),
                      !.wv = Linear(args.wv.w, args.wv.b),
                      !.wf = Linear(args.wf.w, args.wf.b),
                      !.norm1 = LayerNormInit(modelDim),
                      !.norm2 = LayerNormInit(modelDim)]
        IN  /\ linearCalls' = [nm \in names |-> CallOf(args[nm].w, args[nm].b)]
            /\ IF ok
               THEN /\ this' = RegisterChildren(obj)
                    /\ phase' = "ready"
                    /\ err' = ""
               ELSE /\ this' = NoObject
                    /\ phase' = "failed"
                    /\ err' = "dimension mismatch between Linear weight and bias."
    /\ ctor' = "random"
    /\ UNCHANGED <<files, next, w, b, last>>

----------------------------------------------------------------------------
(* Checkpoint-loading construction *)

FileKinds == {"missing", "short", "ragged"}

\* a file of the role i: well-formed, absent, 100 floats, or the expected
\* floats followed by one more byte
FileOf(i, kind) ==
    CASE kind = "ok"      -> [exists |-> TRUE, bytes |-> SizeofFloat * Expected[i]]
      [] kind = "missing" -> [exists |-> FALSE, bytes |-> 0]
      [] kind = "short"   -> [exists |-> TRUE, bytes |-> SizeofFloat * 100]
      [] kind = "ragged"  -> [exists |-> TRUE, bytes |-> SizeofFloat * Expected[i] + 1]

FileSystems ==
    { [i \in FileIdx |-> IF i \in DOMAIN bad THEN FileOf(i, bad[i]) ELSE FileOf(i, "ok")] :
        bad \in UNION { [S -> FileKinds] :
                          S \in { T \in SUBSET FileIdx : Cardinality(T) <= MaxBad } } }

\* the member initializer list: modelDim_(768), headDim_(768 / 12), ...
CheckpointBegin ==
    /\ phase = "none"
    /\ \E fs \in FileSystems : files' = fs
    /\ ctor' = "checkpoint"
    /\ phase' = "loading"
    /\ next' = 1
    /\ this' = [NoObject EXCEPT
                  !.modelDim = 768, !.headDim = 768 \div 12, !.mlpDim = 768 * 4,
                  !.nHeads = 12, !.pDropout = 0, !.pLayerdrop = 0]
    /\ UNCHANGED <<w, b, err, linearCalls, last>>

\* the sub-modules built once the bias file of a group has been read
BuildGroup(obj, wv, bv) ==
    CASE bv.file = Suffix[2] ->
            [obj EXCEPT !.w1 = Linear(AfArray(3072, 768, wv), AfArray(3072, 1, bv))]
      [] bv.file = Suffix[4] ->
            [obj EXCEPT !.w2 = Linear(AfArray(768, 3072, wv), AfArray(768, 1, bv))]
      [] bv.file = Suffix[6] ->
            LET all_w == AfArray(2304, 768, wv)
                all_b == AfArray(2304, 1, bv)
            IN  [obj EXCEPT
                   !.wq = Linear(AfRows(all_w, 0, 768 - 1), AfRows(all_b, 0, 768 - 1)),
                   !.wk = Linear(AfRows(all_w, 768, 2 * 768 - 1),
                                 AfRows(all_b, 768, 2 * 768 - 1)),
                   !.wv = Linear(AfRows(all_w, 2 * 768, 3 * 768 - 1),
                                 AfRows(all_b, 2 * 768, 3 * 768 - 1))]
      [] bv.file = Suffix[8] ->
            [obj EXCEPT !.wf = Linear(AfArray(768, 768, wv), AfArray(768, 1, bv))]
      [] bv.file = Suffix[10] ->
            [obj EXCEPT !.norm1 = LayerNorm(AfArray(768, 1, wv), AfArray(768, 1, bv))]
      [] bv.file = Suffix[12] ->
            [obj EXCEPT !.norm2 = LayerNorm(AfArray(768, 1, wv), AfArray(768, 1, bv))]

\* one readfloats + size check; after a bias file, the group's sub-modules
LoadStep ==
    /\ phase = "loading"
    /\ next \in FileIdx
    /\ LET vec == ReadFloats(next)
       IN  IF vec.n # Expected[next]
           THEN /\ phase' = "failed"
                /\ err' = Suffix[next]
                /\ this' = NoObject
                /\ UNCHANGED <<w, b, next, linearCalls>>
           ELSE IF next % 2 = 1
           THEN /\ w' = vec
                /\ next' = next + 1
                /\ UNCHANGED <<b, phase, err, this, linearCalls>>
           ELSE LET obj == BuildGroup(this, w, vec)
                IN  /\ b' = vec
                    /\ next' = next + 1
                    /\ this' = obj
                    /\ linearCalls' =
                         [nm \in DOMAIN linearCalls |->
                            IF obj[nm].kind = "Linear"
                            THEN CallOf(obj[nm].w, obj[nm].b)
                            ELSE linearCalls[nm]]
                    /\ UNCHANGED <<w, phase, err>>
    /\ UNCHANGED <<files, ctor, last>>

\* the eight add(...) calls that end the constructor
Register ==
    /\ phase = "loading"
    /\ next = NFiles + 1
    /\ this' = RegisterChildren(this)
    /\ phase' = "ready"
    /\ UNCHANGED <<files, ctor, next, w, b, err, linearCalls, last>>

----------------------------------------------------------------------------
(* Tensors of the forward pass: dimensions, symbolic term, random draws *)

Invalid == <<0, 0, 0>>

Tok(op, mask) == [op |-> op, mask |-> mask]

Tensor(dims, term, nrand) == [dims |-> dims, term |-> term, nrand |-> nrand]

Elements(d) == d[1] * d[2] * d[3]

\* Linear forward: weight (out x in) times input (in x T x B), plus bias
LinearDims(lin, d) ==
    IF d # Invalid /\ d[1] = lin.w.dims[2] /\ lin.b.dims[1] = lin.w.dims[1]
    THEN <<lin.w.dims[1], d[2], d[3]>>
    ELSE Invalid

\* LayerNorm over axis 0 of size lin.w.dims[1]
NormDims(norm, d) ==
    IF d # Invalid /\ d[1] = norm.w.dims[1] THEN d ELSE Invalid

Transpose(d) == <<d[2], d[1], d[3]>>

\* moddims with one -1 entry: inferred from the element count, which the
\* reshape must keep
Moddims(d, target) ==
    LET known == IF target[1] = -1 THEN target[2] * target[3]
                 ELSE IF target[2] = -1 THEN target[1] * target[3]
                 ELSE IF target[3] = -1 THEN target[1] * target[2]
                 ELSE Elements(target)
        inferred == IF known = 0 THEN 0 ELSE Elements(d) \div known
        r == [k \in 1..3 |-> IF target[k] = -1 THEN inferred ELSE target[k]]
    IN  IF d # Invalid /\ Elements(r) = Elements(d) /\ Elements(r) > 0
        THEN r ELSE Invalid

\* matmulNT(a, c): a (M x K x N) times c (M2 x K x N) transposed
MatmulNT(a, c) ==
    IF a # Invalid /\ c # Invalid /\ a[2] = c[2] /\ a[3] = c[3]
    THEN <<a[1], c[1], a[3]>> ELSE Invalid

\* matmul(a, c): a (M x K x N) times c (K x M2 x N)
Matmul(a, c) ==
    IF a # Invalid /\ c # Invalid /\ a[2] = c[1] /\ a[3] = c[3]
    THEN <<a[1], c[2], a[3]>> ELSE Invalid

\* dropout(input, p): the input itself when p is 0, else the input under a
\* random mask (draw names the realization of the call's dropout masks)
Dropout(t, p, draw) ==
    IF p > 0
    THEN Tensor(t.dims, <<Tok("dropout", <<<<draw, 1>>>>)>> \o t.term, t.nrand + 1)
    ELSE t

\* the realizations of the dropout masks of one call
DropDraws(pa, pm) == IF pa > 0 \/ pm > 0 THEN DropoutDraws ELSE {0}

----------------------------------------------------------------------------
(* gelu, mlp, selfAttention, dropPath *)

\* gelu: elementwise, the dimensions of its input
Gelu(t) == Tensor(t.dims, <<Tok("gelu", <<>>)>> \o t.term, t.nrand)

\* faulty variant: the configured rate whatever the train flag is
MlpDropoutAlways(blk) == blk.pDropout

\* float pDropout = train_ ? pDropout_ : 0.0;
MlpDropoutP(blk) == IF blk.train THEN blk.pDropout ELSE 0

\* double pDrop = train_ ? pDropout_ : 0.0;
AttnDropoutP(blk) == IF blk.train THEN blk.pDropout ELSE 0

Mlp(blk, input, draw) ==
    LET pDropout == MlpDropoutP(blk)
        h0 == Tensor(LinearDims(blk.w1, input.dims),
                     <<Tok("w1", <<>>)>> \o input.term, input.nrand)
        h1 == Gelu(h0)
        h2 == Dropout(h1, pDropout, draw)
        h3 == Tensor(LinearDims(blk.w2, h2.dims),
                     <<Tok("w2", <<>>)>> \o h2.term, h2.nrand)
        h4 == Dropout(h3, pDropout, draw)
    IN  [out |-> h4, hidden |-> h0.dims]

\* faulty variant: the batch is not folded into the head axis
SplitHeadsNoBatch(blk, B) == <<-1, blk.headDim, blk.nHeads>>

\* af::dim4(-1, headDim_, nHeads_ * B)
SplitHeads(blk, B) == <<-1, blk.headDim, blk.nHeads * B>>

\* af::dim4(-1, headDim_ * nHeads_, B)
MergeHeads(blk, B) == <<-1, blk.headDim * blk.nHeads, B>>

\* q = transpose(wq(x)); q = moddims(q, ...): the dims after each step
Projected(blk, lin, d) ==
    LET proj == LinearDims(lin, d)
    IN  <<proj, Transpose(proj), Moddims(Transpose(proj), SplitHeads(blk, d[3]))>>

Attend(blk, q, k, v, B) ==
    LET scores == MatmulNT(q[3], k[3])
        result == Matmul(scores, v[3])
    IN  <<scores, result, Moddims(result, MergeHeads(blk, B))>>

SelfAttention(blk, x, draw) ==
    LET B == x.dims[3]
        pDrop == AttnDropoutP(blk)
        q == Projected(blk, blk.wq, x.dims)
        k == Projected(blk, blk.wk, x.dims)
        v == Projected(blk, blk.wv, x.dims)
        att == Attend(blk, q, k, v, B)
        proj == Tensor(LinearDims(blk.wf, Transpose(att[3])),
                       <<Tok("selfAttention", <<>>)>> \o x.term, x.nrand)
    IN  [out |-> Dropout(proj, pDrop, draw),
         shapes |-> <<q[1], k[1], v[1], q[2], k[2], v[2], q[3], k[3], v[3]>>
                      \o att \o <<proj.dims>>]

Sum(f, n) ==
    LET S[k \in 0..n] == IF k = 0 THEN 0 ELSE S[k - 1] + f[k]
    IN  S[n]

\* a / c for ratios <<num, den>>; 0/0 is <<0, 0>>
RatDiv(a, c) == <<a[1] * c[2], a[2] * c[1]>>

\* if (!train_) return x;
DropPathSamples(blk) == blk.train

NoPath ==
    [ran |-> FALSE, keepMask |-> <<>>, keepRatio |-> <<0, 0>>,
     factors |-> <<>>, tiled |-> Invalid]

DropPath(blk, x, draws) ==
    IF ~DropPathSamples(blk)
    THEN [out |-> x, path |-> NoPath]
    ELSE
      LET C == x.dims[1]
          T == x.dims[2]
          B == x.dims[3]
          keepMask == [i \in 1..B |-> IF draws[i] > blk.pLayerdrop THEN 1 ELSE 0]
          keepRatio == <<Sum(keepMask, B), B>>
          scaled == [i \in 1..B |-> RatDiv(<<keepMask[i], 1>>, keepRatio)]
          tiled == <<C * 1, T * 1, B>>
      IN  [out |-> Tensor(IF tiled = x.dims THEN x.dims ELSE Invalid,
                          <<Tok("dropPath", scaled)>> \o x.term, x.nrand + 1),
           path |-> [ran |-> TRUE, keepMask |-> keepMask,
                     keepRatio |-> keepRatio, factors |-> scaled,
                     tiled |-> tiled]]

PathDraws(blk, B) ==
    IF DropPathSamples(blk) THEN [1..B -> RanduVals] ELSE {[i \in 1..B |-> 0]}

----------------------------------------------------------------------------
(* forward *)

\* faulty variant: only an empty input collection is rejected
ArityErrorOnlyEmpty(n) == n < 1

\* if (inputs.size() != 1) throw
ArityError(n) == n # 1

Add(a, c) ==
    Tensor(IF a.dims = c.dims /\ a.dims # Invalid THEN a.dims ELSE Invalid,
           <<Tok("add", <<>>)>> \o a.term \o c.term,
           IF a.nrand > c.nrand THEN a.nrand ELSE c.nrand)

Norm(name, norm, t) ==
    Tensor(NormDims(norm, t.dims), <<Tok(name, <<>>)>> \o t.term, t.nrand)

Step(op, in, in2, out) ==
    [op |-> op, in |-> in.term, in2 |-> in2, out |-> out.term]

\* faulty variant: norm2 applied to the input of forward
Norm2OfInput(x, output) == x

\* the operand of norm2: (*norm2_)(output)
Norm2Operand(x, output) == output

\* dropPath(selfAttention((*norm1_)(x)))
AttnSteps(x, n1, sa, dp) ==
    [out |-> dp.out, path |-> dp.path,
     shapes |-> sa.shapes \o <<dp.out.dims>>,
     steps |-> << Step("norm1", x, <<>>, n1),
                  Step("selfAttention", n1, <<>>, sa.out),
                  Step("dropPath", sa.out, <<>>, dp.out) >>]

AttnBranch(blk, x, ma, dd) ==
    LET n1 == Norm("norm1", blk.norm1, x)
        sa == SelfAttention(blk, n1, dd)
    IN  AttnSteps(x, n1, sa, DropPath(blk, sa.out, ma))

\* dropPath(mlp((*norm2_)(output)))
MlpSteps(n2in, n2, ml, dp) ==
    [out |-> dp.out, path |-> dp.path,
     shapes |-> <<ml.hidden, ml.out.dims, dp.out.dims>>,
     steps |-> << Step("norm2", n2in, <<>>, n2),
                  Step("mlp", n2, <<>>, ml.out),
                  Step("dropPath", ml.out, <<>>, dp.out) >>]

MlpBranch(blk, n2in, mb, dd) ==
    LET n2 == Norm("norm2", blk.norm2, n2in)
        ml == Mlp(blk, n2, dd)
    IN  MlpSteps(n2in, n2, ml, DropPath(blk, ml.out, mb))

ForwardSteps(x, a, o1, m, o2) ==
    [out |-> o2,
     steps |-> a.steps \o <<Step("add", x, a.out.term, o1)>>
                 \o m.steps \o <<Step("add", o1, m.out.term, o2)>>,
     shapes |-> a.shapes \o <<o1.dims>> \o m.shapes \o <<o2.dims>>,
     paths |-> <<a.path, m.path>>]

\* auto output = x + dropPath(selfAttention((*norm1_)(x)));
\* output = output + dropPath(mlp((*norm2_)(output)));
SecondHalf(blk, x, a, o1, mb, dd) ==
    LET m == MlpBranch(blk, Norm2Operand(x, o1), mb, dd)
    IN  ForwardSteps(x, a, o1, m, Add(o1, m.out))

FirstHalf(blk, x, a, mb, dd) == SecondHalf(blk, x, a, Add(x, a.out), mb, dd)

ForwardPass(blk, x, ma, mb, dd) ==
    FirstHalf(blk, x, AttnBranch(blk, x, ma, dd), mb, dd)

\* an input tensor (model_dim x T x B)
Input(blk, T, B) == Tensor(<<blk.modelDim, T, B>>, <<Tok("x", <<>>)>>, 0)

\* the call record of forward(inputs)
ForwardCall(blk, inputs, ma, mb, dd) ==
    IF ArityError(Len(inputs))
    THEN [status |-> "error", train |-> blk.train,
          inputs |-> inputs, outputs |-> <<>>, steps |-> <<>>,
          shapes |-> <<>>, paths |-> <<>>,
          err |-> "VisionTransformer forward, >1 inputs"]
    ELSE LET r == ForwardPass(blk, inputs[1], ma, mb, dd)
         IN  IF r.out.dims = Invalid
             THEN [status |-> "error", train |-> blk.train,
                   inputs |-> inputs, outputs |-> <<>>,
                   steps |-> r.steps, shapes |-> r.shapes,
                   paths |-> r.paths, err |-> "dimension mismatch"]
             ELSE [status |-> "ok", train |-> blk.train,
                   inputs |-> inputs, outputs |-> <<r.out>>,
                   steps |-> r.steps, shapes |-> r.shapes,
                   paths |-> r.paths, err |-> ""]

\* the random draws a call can make: none when it throws on its arity
CallDraws(blk, n, B) ==
    IF ArityError(n)
    THEN {<<[i \in 1..B |-> 0], [i \in 1..B |-> 0], 0>>}
    ELSE PathDraws(blk, B) \X PathDraws(blk, B)
           \X DropDraws(AttnDropoutP(blk), MlpDropoutP(blk))

Forward ==
    /\ phase = "ready"
    /\ last.status = "none"
    /\ \E n \in Arities, T \in 1..MaxT, B \in 1..MaxB :
        \E d \in CallDraws(this, n, B) :
            last' = ForwardCall(this, [i \in 1..n |-> Input(this, T, B)],
                                d[1], d[2], d[3])
    /\ UNCHANGED <<files, ctor, phase, next, w, b, err, linearCalls, this>>

\* the caller drops the result (or the exception) of the call
Discard ==
    /\ last.status # "none"
    /\ last' = NoCall
    /\ UNCHANGED <<files, ctor, phase, next, w, b, err, linearCalls, this>>

\* Module::train() / Module::eval() of the base module
SetTrain ==
    /\ phase = "ready"
    /\ this' = [this EXCEPT !.train = ~this.train]
    /\ UNCHANGED <<files, ctor, phase, next, w, b, err, linearCalls, last>>

----------------------------------------------------------------------------
Next ==
    \/ RandomConstruct
    \/ CheckpointBegin
    \/ LoadStep
    \/ Register
    \/ Forward
    \/ Discard
    \/ SetTrain

Spec == Init /\ [][Next]_vars

----------------------------------------------------------------------------
(* Properties *)

Children8 == <<"w1", "w2", "wq", "wk", "wv", "wf", "norm1", "norm2">>

Members == {Children8[k] : k \in 1..Len(Children8)}

Markers == {"offset", "rowblock"}

\* the float at offset k of a file holding a row-major matrix of `cols`
\* columns: its own offset, or the marker of the 768-row block of its row
FileValue(marker, cols, k) ==
    IF marker = "offset" THEN k ELSE (k \div cols) \div 768

\* file element (r, c) of a row-major matrix of `cols` columns
FileElement(marker, cols, r, c) == FileValue(marker, cols, r * cols + c)

Loaded == ctor = "checkpoint" /\ phase = "ready"

\* C1: after a successful checkpoint load, query/key/value weight (i, j) is
\* element (i, j), (768 + i, j), (1536 + i, j) of the row-major 2304 x 768
\* qkv weight file, and query/key/value bias i is element i, 768 + i,
\* 1536 + i of the qkv bias file.
C1_QkvSplit ==
    Loaded =>
      \A marker \in Markers, i \in Probe, j \in Probe :
        /\ this.wq.w.data = Suffix[5] /\ this.wq.b.data = Suffix[6]
        /\ this.wk.w.data = Suffix[5] /\ this.wk.b.data = Suffix[6]
        /\ this.wv.w.data = Suffix[5] /\ this.wv.b.data = Suffix[6]
        /\ this.wq.w.dims = <<768, 768>> /\ this.wq.b.dims = <<768, 1>>
        /\ FileValue(marker, 768, ArrayAt(this.wq.w, i, j))
             = FileElement(marker, 768, i, j)
        /\ FileValue(marker, 768, ArrayAt(this.wk.w, i, j))
             = FileElement(marker, 768, 768 + i, j)
        /\ FileValue(marker, 768, ArrayAt(this.wv.w, i, j))
             = FileElement(marker, 768, 1536 + i, j)
        /\ FileValue(marker, 1, ArrayAt(this.wq.b, i, 0)) = FileElement(marker, 1, i, 0)
        /\ FileValue(marker, 1, ArrayAt(this.wk.b, i, 0))
             = FileElement(marker, 1, 768 + i, 0)
        /\ FileValue(marker, 1, ArrayAt(this.wv.b, i, 0))
             = FileElement(marker, 1, 1536 + i, 0)

\* a file that is absent or does not hold exactly the expected floats
Offending(i) ==
    ~files[i].exists \/ files[i].bytes # SizeofFloat * Expected[i]

FirstOf(S) == CHOOSE i \in S : \A k \in S : i <= k

\* C2: when a checkpoint file is absent or is not exactly the expected
\* number of 32-bit floats, checkpoint-loading construction fails with an
\* error naming the first such file in read order; no file is accepted
\* truncated or padded.
C2_RejectsMalformed ==
    (ctor = "checkpoint" /\ phase \in {"ready", "failed"}) =>
      LET bad == {i \in FileIdx : Offending(i)}
      IN  bad # {} => (phase = "failed" /\ err = Suffix[FirstOf(bad)])

\* C3: checkpoint-loading construction ends in one of two ways: every file
\* passed validation and the eight sub-modules are the block's children, in
\* the order of the randomly-initialized path; or a file failed validation,
\* nothing is registered and there is no block to run forward on.  No block
\* that forward can run on has only some of the eight children.
C3_NoPartialLoad ==
    /\ phase = "ready" =>
         /\ this.children = Children8
         /\ \A nm \in Members : this[nm].kind # "null"
    /\ Loaded => \A i \in FileIdx : ReadFloats(i).n = Expected[i]
    /\ (ctor = "checkpoint" /\ phase \in {"ready", "failed"}
          /\ \E i \in FileIdx : ReadFloats(i).n # Expected[i]) => phase = "failed"
    /\ phase = "failed" => this = NoObject
    /\ phase # "ready" => (this.children = <<>> /\ last.status = "none")

\* the last file fails validation, after every sub-module was created
C3_Witness ==
    ctor = "checkpoint" /\ phase = "failed" /\ err = Suffix[12]

\* C4: forward on an input (model_dim x T x B) returns (model_dim x T x B);
\* in selfAttention the q/k/v projections are (head_dim*n_heads x T x B),
\* transposed (T x head_dim*n_heads x B), reshaped (T x head_dim x
\* n_heads*B); scores (T x T x n_heads*B); weighted values (T x head_dim x
\* n_heads*B), reshaped (T x head_dim*n_heads x B), projected by wf to
\* (model_dim x T x B); mlp goes through (mlp_dim x T x B) and back.
C4_ShapePreserved ==
    (last.status # "none" /\ Len(last.inputs) = 1) =>
      LET d == last.inputs[1].dims
          T == d[2]
          B == d[3]
          hn == this.headDim * this.nHeads
          proj == <<hn, T, B>>
          tr == <<T, hn, B>>
          heads == <<T, this.headDim, this.nHeads * B>>
          io == <<this.modelDim, T, B>>
      IN  /\ d = io
          /\ last.status = "ok"
          /\ last.outputs[1].dims = d
          /\ last.shapes =
               << proj, proj, proj, tr, tr, tr, heads, heads, heads,
                  <<T, T, this.nHeads * B>>, heads, tr, io, io, io,
                  <<this.mlpDim, T, B>>, io, io, io >>

C4_Witness ==
    /\ last.status = "ok"
    /\ last.inputs[1].dims[2] > 1
    /\ last.inputs[1].dims[3] > 1
    /\ this.nHeads > 1

RandomTokens == {"dropout", "dropPath"}

AllDraws(B) == [1..B -> RanduVals] \X [1..B -> RanduVals] \X DropoutDraws

\* C5: with the train flag off, whatever pDropout and pLayerdrop are, a
\* forward call draws nothing at random: no dropout mask and no drop-path
\* mask enters the output, dropPath returns its input, and the output is
\* the same for every realization of the random source, so two calls on
\* the same input return the same output.
C5_EvalDeterministic ==
    (last.status = "ok" /\ ~last.train) =>
      LET out == last.outputs[1]
          blk == [this EXCEPT !.train = FALSE]
      IN  /\ out.nrand = 0
          /\ \A k \in 1..Len(out.term) : out.term[k].op \notin RandomTokens
          /\ last.steps[3].out = last.steps[3].in
          /\ last.steps[7].out = last.steps[7].in
          /\ \A k \in 1..2 : ~last.paths[k].ran
          /\ \A d \in AllDraws(out.dims[3]) :
               ForwardCall(blk, last.inputs, d[1], d[2], d[3]).outputs
                 = last.outputs

C5_Witness ==
    /\ last.status = "ok"
    /\ ~last.train
    /\ this.pDropout > 0
    /\ this.pLayerdrop > 0

\* which calls throw, and what a call that throws has done
C6_Arity ==
    last.status # "none" =>
      /\ (Len(last.inputs) # 1) <=> (last.status = "error")
      /\ last.status = "error" =>
           /\ last.steps = <<>>
           /\ last.outputs = <<>>
           /\ last.err = "VisionTransformer forward, >1 inputs"
      /\ Len(last.inputs) = 1 => Len(last.outputs) = 1

\* C6: forward throws, before any normalization, attention, MLP or
\* drop-path step and without changing the block, exactly when it is not
\* given one input tensor (none, or two or more); given one it returns one
\* tensor.
C6_InputArity ==
    /\ []C6_Arity
    /\ [][(last' # last /\ last'.status = "error") => this' = this]_vars

C6_Witness ==
    /\ last.status = "error"
    /\ Len(last.inputs) = 2

\* C7: after randomly-initialized construction with any positive
\* dimensions, each of w1, w2, wq, wk, wv, wf holds a weight (out x in)
\* and a bias of length out: w1 (model -> mlp), w2 (mlp -> model),
\* wq/wk/wv (model -> head*heads), wf (head*heads -> model).
C7_ProjectionShapes ==
    (ctor = "random" /\ phase # "none") =>
      LET c == linearCalls
          model == c.w1.w[2]
          mlp == c.w1.w[1]
          hn == c.wq.w[1]
      IN  /\ phase = "ready"
          /\ c.w1.w = <<mlp, model>> /\ c.w1.b = mlp
          /\ c.w2.w = <<model, mlp>> /\ c.w2.b = model
          /\ c.wq.w = <<hn, model>> /\ c.wq.b = hn
          /\ c.wk.w = <<hn, model>> /\ c.wk.b = hn
          /\ c.wv.w = <<hn, model>> /\ c.wv.b = hn
          /\ c.wf.w = <<model, hn>> /\ c.wf.b = model

\* the ratio f is n / d
RatIs(f, n, d) == f[2] # 0 /\ d # 0 /\ f[1] * d = n * f[2]

\* C8: in training mode dropPath multiplies every element of batch element
\* b by one factor: 0 when b is dropped, B / K when b is kept, K the number
\* of kept batch elements; the factors sum to B when K >= 1.
C8_DropPathScaling ==
    (last.status = "ok" /\ last.train) =>
      \A k \in 1..2 :
        LET p == last.paths[k]
            d == last.inputs[1].dims
            B == d[3]
            K == Sum(p.keepMask, B)
        IN  /\ p.ran
            /\ p.tiled = d
            /\ DOMAIN p.factors = 1..B
            /\ \A i \in 1..B :
                 IF p.keepMask[i] = 0
                 THEN RatIs(p.factors[i], 0, 1)
                 ELSE RatIs(p.factors[i], B, K)
            /\ K >= 1 => Sum([i \in 1..B |-> p.factors[i][1]], B) = B * K

\* the operations of a completed call and their operands
C9_Order ==
    last.status = "ok" =>
      LET s == last.steps
          x == last.inputs[1].term
      IN  /\ [k \in 1..Len(s) |-> s[k].op] =
               << "norm1", "selfAttention", "dropPath", "add",
                  "norm2", "mlp", "dropPath", "add" >>
          /\ s[1].in = x
          /\ s[2].in = s[1].out
          /\ s[3].in = s[2].out
          /\ s[4].in = x /\ s[4].in2 = s[3].out
          /\ s[5].in = s[4].out
          /\ s[6].in = s[5].out
          /\ s[7].in = s[6].out
          /\ s[8].in = s[4].out /\ s[8].in2 = s[7].out
          /\ last.outputs[1].term = s[8].out
          /\ last.train =>
               /\ last.paths[1].ran /\ last.paths[2].ran
               /\ Head(s[3].out) = Tok("dropPath", last.paths[1].factors)
               /\ Head(s[7].out) = Tok("dropPath", last.paths[2].factors)

\* C9: a forward call runs norm1 on x, selfAttention, dropPath, the add
\* with x, norm2 on that sum, mlp, dropPath, the add with that sum, in this
\* order and each once; in training mode each dropPath has its own mask;
\* the call changes nothing of the block.
C9_ForwardPipeline ==
    /\ []C9_Order
    /\ [][(last' # last /\ last'.status # "none") => this' = this]_vars

\* the two dropPath steps of one call drew different masks
C9_Witness ==
    /\ last.status = "ok"
    /\ last.train
    /\ last.paths[1].keepMask # last.paths[2].keepMask

\* C10: in training mode the keep ratio dropPath divides by is never zero
\* (some batch element is kept), so no factor is 0/0.
C10_KeepRatioNonZero ==
    (last.status = "ok" /\ last.train) =>
      \A k \in 1..2 :
        /\ last.paths[k].keepRatio[1] # 0
        /\ \A i \in DOMAIN last.paths[k].factors : last.paths[k].factors[i][2] # 0
====
